---- MODULE Spec2Model ----
(***************************************************************************)
(* The user-specific knowledge graph server of servers/memory/main.py.     *)
(*                                                                         *)
(* Every endpoint resolves the user's file, loads the whole graph from it, *)
(* changes the graph in memory and rewrites the whole file.  Strings are   *)
(* sequences of one-character strings, so that lower-casing and substring  *)
(* search can be computed.  A file is a flag (does the path exist) and the *)
(* sequence of its lines; a line is the JSON object json.loads gives back. *)
(*                                                                         *)
(* Spec     runs the endpoints one request at a time (each action is a     *)
(*          whole handler).                                                *)
(* SpecConc runs requests on NumThreads worker threads, as the thread pool *)
(*          serving the synchronous handlers does, one file access per     *)
(*          step.                                                          *)
(***************************************************************************)
EXTENDS Integers, Sequences, FiniteSets, TLC

VARIABLES
    files,   \* path -> [exists, lines]: the files of DATA_DIR
    last,    \* Spec: the last request served, the graph it loaded, its response
    nops,    \* number of requests started so far
    pc,      \* SpecConc: thread -> "idle" | "loaded" | "open"
    call     \* SpecConc: thread -> the request the thread is serving / served last

vars == <<files, last, nops, pc, call>>

----------------------------------------------------------------------------
(* Bounds *)

\* requests per behaviour
MaxOps == 3
\* worker threads of SpecConc
NumThreads == 2

----------------------------------------------------------------------------
(* Vocabulary the requests are drawn from *)

Alice == <<"A", "l">>
Bob == <<"B", "o">>
Person == <<"P">>
Place == <<"p", "l">>
ObsX == <<"x">>
ObsY == <<"y">>
ObsZ == <<"z">>
Knows == <<"k">>
Likes == <<"L">>

Users == {"u1", "u2"}
\* the user whose requests Spec and SpecConc run
Callers == {"u1"}
Names == {Alice, Bob}

InSeq(x, s) == \E i \in DOMAIN s : s[i] = x

\* class Entity
Entity(name, entityType, observations) ==
    [name |-> name, entityType |-> entityType, observations |-> observations]

\* class Relation (field from_, alias "from")
Relation(from_, to, relationType) ==
    [from_ |-> from_, to |-> to, relationType |-> relationType]

\* class KnowledgeGraph
KnowledgeGraph(entities, relations) ==
    [entities |-> entities, relations |-> relations]

\* class ObservationItem
ObservationItem(entityName, contents) ==
    [entityName |-> entityName, contents |-> contents]

\* class DeletionItem
DeletionItem(entityName, observations) ==
    [entityName |-> entityName, observations |-> observations]

\* The payloads the requests are drawn from.  Lists are kept to at most two items:
\* the empty list, single items, and the pairs that repeat a key, mix present and
\* absent names, or differ in one field.

AlicePerson == Entity(Alice, Person, <<>>)
AlicePlace == Entity(Alice, Place, <<ObsX>>)
BobPerson == Entity(Bob, Person, <<>>)

EntityLists ==
    { <<>>, <<AlicePerson>>, <<AlicePlace>>, <<BobPerson>>,
      <<AlicePerson, BobPerson>>, <<AlicePerson, AlicePlace>>,
      <<BobPerson, AlicePlace>>, <<BobPerson, BobPerson>> }

AliceKnowsBob == Relation(Alice, Bob, Knows)
BobKnowsBob == Relation(Bob, Bob, Knows)
AliceKnowsAlice == Relation(Alice, Alice, Knows)
AliceLikesBob == Relation(Alice, Bob, Likes)

RelationLists ==
    { <<>>, <<AliceKnowsBob>>, <<BobKnowsBob>>, <<AliceKnowsAlice>>, <<AliceLikesBob>>,
      <<AliceKnowsBob, AliceKnowsBob>>, <<AliceKnowsBob, AliceLikesBob>>,
      <<AliceKnowsAlice, AliceKnowsBob>>, <<BobKnowsBob, AliceKnowsAlice>> }

ObservationLists ==
    { <<>>,
      <<ObservationItem(Alice, <<ObsX>>)>>,
      <<ObservationItem(Alice, <<ObsX, ObsY>>)>>,
      <<ObservationItem(Alice, <<ObsY, ObsY>>)>>,
      <<ObservationItem(Alice, <<ObsY, ObsZ>>)>>,
      <<ObservationItem(Bob, <<ObsY>>)>>,
      <<ObservationItem(Alice, <<ObsX>>), ObservationItem(Bob, <<ObsY>>)>>,
      <<ObservationItem(Bob, <<ObsY>>), ObservationItem(Alice, <<ObsX>>)>>,
      <<ObservationItem(Alice, <<ObsY>>), ObservationItem(Alice, <<ObsX, ObsY>>)>> }

DeletionLists ==
    { <<>>,
      <<DeletionItem(Alice, <<ObsX>>)>>,
      <<DeletionItem(Alice, <<ObsY, ObsX>>)>>,
      <<DeletionItem(Bob, <<ObsY>>)>>,
      <<DeletionItem(Bob, <<ObsY>>), DeletionItem(Alice, <<ObsX>>)>>,
      <<DeletionItem(Alice, <<ObsY>>), DeletionItem(Alice, <<ObsX>>)>> }

NameLists == { <<>>, <<Alice>>, <<Bob>>, <<Alice, Bob>>, <<Bob, Bob>> }

Queries == { <<>>, <<"a", "l">>, <<"P">>, <<"X">> }

----------------------------------------------------------------------------
(* Persistence *)

\* hashlib.sha256(user_id.encode()).hexdigest(), shortened to its first digits
sha256(user_id) ==
    CASE user_id = "u1" -> "bb82030d"
      [] user_id = "u2" -> "6ca202c8"

\* one file for every user
get_memory_file_path_Shared(user_id) == "memory.json"

get_memory_file_path(user_id) == "memory_" \o sha256(user_id) \o ".json"

Paths == {get_memory_file_path(u) : u \in Users}

NoFile == [exists |-> FALSE, lines |-> <<>>]

EmptyGraph == KnowledgeGraph(<<>>, <<>>)

\* json.dumps({"type": "entity", **e.dict()})
EntityLine(e) ==
    [type |-> "entity", name |-> e.name, entityType |-> e.entityType,
     observations |-> e.observations]

\* json.dumps({"type": "relation", **r.dict(by_alias=True)})
RelationLine(r) ==
    [type |-> "relation", from |-> r.from_, to |-> r.to,
     relationType |-> r.relationType]

\* Entity(**{k: v for k, v in item.items() if k != 'type'})
EntityOfLine(item) == Entity(item.name, item.entityType, item.observations)

\* Relation(**{k: v for k, v in item.items() if k != 'type'})
RelationOfLine(item) == Relation(item.from, item.to, item.relationType)

\* json.loads(line) raises: the line is not JSON text (a model line that is not JSON
\* carries its text in the field raw; a JSON object is the record of its keys)
json_loads_raises(line) == "raw" \in DOMAIN line

\* item.get("type")
item_get_type(item) == IF "type" \in DOMAIN item THEN item.type ELSE "None"

IsEntityLine(item) == item_get_type(item) = "entity"
IsRelationLine(item) == item_get_type(item) = "relation"

\* Entity(**...) and Relation(**...) raise a ValidationError when a required field
\* is missing; a line of another "type", or of none, raises nothing
LineRaises(line) ==
    \/ json_loads_raises(line)
    \/ IsEntityLine(line) /\ ~({"name", "entityType", "observations"} \subseteq DOMAIN line)
    \/ IsRelationLine(line) /\ ~({"from", "to", "relationType"} \subseteq DOMAIN line)

\* read_graph_file leaves by an exception, which the server answers with status 500
read_graph_file_raises(file) ==
    /\ file.exists
    /\ \E i \in DOMAIN file.lines : LineRaises(file.lines[i])

\* a line whose "type" is neither "entity" nor "relation" adds nothing
read_graph_file(file) ==
    IF ~file.exists
    THEN EmptyGraph
    ELSE LET entityLines == SelectSeq(file.lines, IsEntityLine)
             relationLines == SelectSeq(file.lines, IsRelationLine)
         IN KnowledgeGraph(
                [i \in DOMAIN entityLines |-> EntityOfLine(entityLines[i])],
                [i \in DOMAIN relationLines |-> RelationOfLine(relationLines[i])])

\* open(file_path, "w"): the file exists and is empty
OpenForWrite == [exists |-> TRUE, lines |-> <<>>]

\* save_graph writing the entity lines and no relation line
GraphLines_EntitiesOnly(graph) ==
    [i \in DOMAIN graph.entities |-> EntityLine(graph.entities[i])]

\* the lines save_graph writes
GraphLines(graph) ==
    [i \in DOMAIN graph.entities |-> EntityLine(graph.entities[i])]
        \o [i \in DOMAIN graph.relations |-> RelationLine(graph.relations[i])]

save_graph(graph) == [exists |-> TRUE, lines |-> GraphLines(graph)]

----------------------------------------------------------------------------
(* The endpoints as functions of (graph loaded, payload): each gives the     *)
(* graph as the handler leaves it in memory and the response.                *)

Response(graph, status, returned, detail) ==
    [graph |-> graph, status |-> status, returned |-> returned, detail |-> detail]

\* create_entities replacing a stored entity by the first payload entity of its name
CreateEntities_Overwriting(graph, entities) ==
    LET existing_names == {graph.entities[i].name : i \in DOMAIN graph.entities}
        notExisting(e) == e.name \notin existing_names
        new_entities == SelectSeq(entities, notExisting)
        sent(e) == \E i \in DOMAIN entities : entities[i].name = e.name
        replaced(e) ==
            IF sent(e)
            THEN entities[CHOOSE i \in DOMAIN entities : entities[i].name = e.name]
            ELSE e
    IN Response([graph EXCEPT !.entities =
                     [i \in DOMAIN @ |-> replaced(@[i])] \o new_entities],
                200, new_entities, <<>>)

\* existing_names / new_entities / graph.entities.extend(new_entities)
CreateEntities(graph, entities) ==
    LET existing_names == {graph.entities[i].name : i \in DOMAIN graph.entities}
        notExisting(e) == e.name \notin existing_names
        new_entities == SelectSeq(entities, notExisting)
    IN Response([graph EXCEPT !.entities = @ \o new_entities], 200, new_entities, <<>>)

Triple(r) == <<r.from_, r.to, r.relationType>>

\* create_relations adding only the relations whose endpoints both name an entity
CreateRelations_CheckingEndpoints(graph, relations) ==
    LET existing == {Triple(graph.relations[i]) : i \in DOMAIN graph.relations}
        names == {graph.entities[i].name : i \in DOMAIN graph.entities}
        accepted(r) == Triple(r) \notin existing /\ r.from_ \in names /\ r.to \in names
        new == SelectSeq(relations, accepted)
    IN Response([graph EXCEPT !.relations = @ \o new], 200, new, <<>>)

\* existing / new / graph.relations.extend(new)
CreateRelations(graph, relations) ==
    LET existing == {Triple(graph.relations[i]) : i \in DOMAIN graph.relations}
        notExisting(r) == Triple(r) \notin existing
        new == SelectSeq(relations, notExisting)
    IN Response([graph EXCEPT !.relations = @ \o new], 200, new, <<>>)

\* next((i for e in entities if e.name == name), None): 0 stands for None
FirstNamed(entities, name) ==
    IF \E i \in DOMAIN entities : entities[i].name = name
    THEN CHOOSE i \in DOMAIN entities :
             /\ entities[i].name = name
             /\ \A j \in 1..(i - 1) : entities[j].name # name
    ELSE 0

\* the loop of add_observations from item i on; the raise ends it with 404
RECURSIVE AddObservationsFrom(_, _, _, _)
AddObservationsFrom(graph, observations, i, results) ==
    IF i > Len(observations)
    THEN Response(graph, 200, results, <<>>)
    ELSE LET obs == observations[i]
             k == FirstNamed(graph.entities, obs.entityName)
         IN IF k = 0
            THEN Response(graph, 404, results, obs.entityName)
            ELSE LET entity == graph.entities[k]
                     isNew(c) == ~InSeq(c, entity.observations)
                     added == SelectSeq(obs.contents, isNew)
                     extended == [graph EXCEPT
                                    !.entities[k].observations = @ \o added]
                 IN AddObservationsFrom(
                        extended, observations, i + 1,
                        Append(results, [entityName |-> obs.entityName,
                                         addedObservations |-> added]))

\* add_observations reporting every string of contents as added
AddObservations_ReportingContents(graph, observations) ==
    LET resp == AddObservationsFrom(graph, observations, 1, <<>>)
    IN [resp EXCEPT !.returned =
            [i \in DOMAIN resp.returned |->
                [entityName |-> observations[i].entityName,
                 addedObservations |-> observations[i].contents]]]

AddObservations(graph, observations) ==
    AddObservationsFrom(graph, observations, 1, <<>>)

\* DeleteEntities with the cascade testing only r.from_
DeleteEntities_FromOnly(graph, entityNames) ==
    LET keptEntity(e) == ~InSeq(e.name, entityNames)
        keptRelation(r) == ~InSeq(r.from_, entityNames)
    IN [graph |-> KnowledgeGraph(SelectSeq(graph.entities, keptEntity),
                                 SelectSeq(graph.relations, keptRelation)),
        status |-> 200, returned |-> <<>>, detail |-> <<>>]

DeleteEntities(graph, entityNames) ==
    LET keptEntity(e) == ~InSeq(e.name, entityNames)
        keptRelation(r) == ~InSeq(r.from_, entityNames) /\ ~InSeq(r.to, entityNames)
    IN Response(KnowledgeGraph(SelectSeq(graph.entities, keptEntity),
                               SelectSeq(graph.relations, keptRelation)),
                200, <<>>, <<>>)

\* the loop of delete_observations ending at the first item whose entity is missing
RECURSIVE DeleteObservationsFrom_StoppingAtMissing(_, _, _)
DeleteObservationsFrom_StoppingAtMissing(graph, deletions, i) ==
    IF i > Len(deletions)
    THEN Response(graph, 200, <<>>, <<>>)
    ELSE LET deletion == deletions[i]
             k == FirstNamed(graph.entities, deletion.entityName)
             kept(obs) == ~InSeq(obs, deletion.observations)
         IN IF k = 0
            THEN Response(graph, 200, <<>>, <<>>)
            ELSE DeleteObservationsFrom_StoppingAtMissing(
                     [graph EXCEPT !.entities[k].observations = SelectSeq(@, kept)],
                     deletions, i + 1)

RECURSIVE DeleteObservationsFrom(_, _, _)
DeleteObservationsFrom(graph, deletions, i) ==
    IF i > Len(deletions)
    THEN Response(graph, 200, <<>>, <<>>)
    ELSE LET deletion == deletions[i]
             k == FirstNamed(graph.entities, deletion.entityName)
             kept(obs) == ~InSeq(obs, deletion.observations)
         IN IF k = 0
            THEN DeleteObservationsFrom(graph, deletions, i + 1)
            ELSE DeleteObservationsFrom(
                     [graph EXCEPT !.entities[k].observations = SelectSeq(@, kept)],
                     deletions, i + 1)

DeleteObservations(graph, deletions) == DeleteObservationsFrom(graph, deletions, 1)

\* delete_relations matching on (from_, to) alone
DeleteRelations_IgnoringType(graph, relations) ==
    LET del_set == {<<relations[i].from_, relations[i].to>> : i \in DOMAIN relations}
        kept(r) == <<r.from_, r.to>> \notin del_set
    IN Response([graph EXCEPT !.relations = SelectSeq(@, kept)], 200, <<>>, <<>>)

DeleteRelations(graph, relations) ==
    LET del_set == {Triple(relations[i]) : i \in DOMAIN relations}
        kept(r) == Triple(r) \notin del_set
    IN Response([graph EXCEPT !.relations = SelectSeq(@, kept)], 200, <<>>, <<>>)

\* str.lower() on the letters of the vocabulary
LowerChar(c) ==
    CASE c = "A" -> "a" [] c = "B" -> "b" [] c = "L" -> "l"
      [] c = "P" -> "p" [] c = "X" -> "x" [] OTHER -> c

lower(s) == [i \in DOMAIN s |-> LowerChar(s[i])]

\* q in s, for strings
Contains(s, q) ==
    \E k \in 0..(Len(s) - Len(q)) : SubSeq(s, k + 1, k + Len(q)) = q

\* relations = [r for r in graph.relations if r.from_ in names and r.to in names]
RelationsAmong(graph, names) ==
    LET both(r) == r.from_ \in names /\ r.to \in names
    IN SelectSeq(graph.relations, both)

\* SearchNodes comparing the query as it was sent, without lower-casing it
SearchNodes_QueryAsSent(graph, query) ==
    LET matches(e) ==
            \/ Contains(lower(e.name), query)
            \/ Contains(lower(e.entityType), query)
            \/ \E i \in DOMAIN e.observations :
                   Contains(lower(e.observations[i]), query)
        entities == SelectSeq(graph.entities, matches)
        names == {entities[i].name : i \in DOMAIN entities}
    IN KnowledgeGraph(entities, RelationsAmong(graph, names))

SearchNodes(graph, query) ==
    LET matches(e) ==
            \/ Contains(lower(e.name), lower(query))
            \/ Contains(lower(e.entityType), lower(query))
            \/ \E i \in DOMAIN e.observations :
                   Contains(lower(e.observations[i]), lower(query))
        entities == SelectSeq(graph.entities, matches)
        names == {entities[i].name : i \in DOMAIN entities}
    IN KnowledgeGraph(entities, RelationsAmong(graph, names))

\* OpenNodes with the relations filtered by req.names instead of the names found
OpenNodes_ByRequestedNames(graph, req_names) ==
    LET named(e) == InSeq(e.name, req_names)
        both(r) == InSeq(r.from_, req_names) /\ InSeq(r.to, req_names)
    IN KnowledgeGraph(SelectSeq(graph.entities, named),
                      SelectSeq(graph.relations, both))

OpenNodes(graph, req_names) ==
    LET named(e) == InSeq(e.name, req_names)
        entities == SelectSeq(graph.entities, named)
        names == {entities[i].name : i \in DOMAIN entities}
    IN KnowledgeGraph(entities, RelationsAmong(graph, names))

----------------------------------------------------------------------------
(* Spec: the handlers, one request at a time *)

Threads == 1..NumThreads

EmptyRequest ==
    [entities |-> <<>>, relations |-> <<>>, observations |-> <<>>,
     deletions |-> <<>>, entityNames |-> <<>>, names |-> <<>>, query |-> <<>>]

NoCall ==
    [op |-> "none", user_id |-> "u1", req |-> EmptyRequest, before |-> EmptyGraph,
     graph |-> EmptyGraph, status |-> 0, returned |-> <<>>, detail |-> <<>>]

\* the graph stored for a user: what a load of the user's file gives now
Stored(user_id) == read_graph_file(files[get_memory_file_path(user_id)])

\* One request served from load to response.  resp is what the endpoint made of the
\* graph loaded; the file is rewritten when the handler reaches its save_graph call.
Serve(user_id, op, req, resp, saves) ==
    /\ nops < MaxOps
    /\ nops' = nops + 1
    /\ IF read_graph_file_raises(files[get_memory_file_path(user_id)])
       THEN /\ files' = files
            /\ last' = [op |-> op, user_id |-> user_id, req |-> req,
                        before |-> EmptyGraph, graph |-> EmptyGraph,
                        status |-> 500, returned |-> <<>>, detail |-> <<>>]
       ELSE /\ files' = IF saves
                        THEN [files EXCEPT ![get_memory_file_path(user_id)] =
                                  save_graph(resp.graph)]
                        ELSE files
            /\ last' = [op |-> op, user_id |-> user_id, req |-> req,
                        before |-> Stored(user_id), graph |-> resp.graph,
                        status |-> resp.status, returned |-> resp.returned,
                        detail |-> resp.detail]
    /\ UNCHANGED <<pc, call>>

create_entities(user_id, entities) ==
    Serve(user_id, "create_entities", [EmptyRequest EXCEPT !.entities = entities],
          CreateEntities(Stored(user_id), entities), TRUE)

create_relations(user_id, relations) ==
    Serve(user_id, "create_relations", [EmptyRequest EXCEPT !.relations = relations],
          CreateRelations(Stored(user_id), relations), TRUE)

\* add_observations saving what it has changed before it raises
add_observations_SavingOnError(user_id, observations) ==
    Serve(user_id, "add_observations",
          [EmptyRequest EXCEPT !.observations = observations],
          AddObservations(Stored(user_id), observations), TRUE)

\* the HTTPException leaves the handler before save_graph
add_observations(user_id, observations) ==
    LET resp == AddObservations(Stored(user_id), observations)
    IN Serve(user_id, "add_observations",
             [EmptyRequest EXCEPT !.observations = observations],
             resp, resp.status = 200)

delete_entities(user_id, entityNames) ==
    Serve(user_id, "delete_entities", [EmptyRequest EXCEPT !.entityNames = entityNames],
          DeleteEntities(Stored(user_id), entityNames), TRUE)

delete_observations(user_id, deletions) ==
    Serve(user_id, "delete_observations", [EmptyRequest EXCEPT !.deletions = deletions],
          DeleteObservations(Stored(user_id), deletions), TRUE)

delete_relations(user_id, relations) ==
    Serve(user_id, "delete_relations", [EmptyRequest EXCEPT !.relations = relations],
          DeleteRelations(Stored(user_id), relations), TRUE)

\* read_graph saving the graph it has loaded
read_graph_Saving(user_id) ==
    Serve(user_id, "read_graph", EmptyRequest,
          Response(Stored(user_id), 200, <<>>, <<>>), TRUE)

read_graph(user_id) ==
    Serve(user_id, "read_graph", EmptyRequest,
          Response(Stored(user_id), 200, <<>>, <<>>), FALSE)

search_nodes(user_id, query) ==
    Serve(user_id, "search_nodes", [EmptyRequest EXCEPT !.query = query],
          Response(SearchNodes(Stored(user_id), query), 200, <<>>, <<>>), FALSE)

open_nodes(user_id, names) ==
    Serve(user_id, "open_nodes", [EmptyRequest EXCEPT !.names = names],
          Response(OpenNodes(Stored(user_id), names), 200, <<>>, <<>>), FALSE)

\* DATA_DIR.mkdir(exist_ok=True): no user has a file yet
Init ==
    /\ files = [p \in Paths |-> NoFile]
    /\ last = NoCall
    /\ nops = 0
    /\ pc = [t \in Threads |-> "idle"]
    /\ call = [t \in Threads |-> NoCall]

Next ==
    \E user_id \in Callers :
        \/ \E entities \in EntityLists : create_entities(user_id, entities)
        \/ \E relations \in RelationLists : create_relations(user_id, relations)
        \/ \E observations \in ObservationLists : add_observations(user_id, observations)
        \/ \E entityNames \in NameLists : delete_entities(user_id, entityNames)
        \/ \E deletions \in DeletionLists : delete_observations(user_id, deletions)
        \/ \E relations \in RelationLists : delete_relations(user_id, relations)
        \/ read_graph(user_id)
        \/ \E query \in Queries : search_nodes(user_id, query)
        \/ \E names \in NameLists : open_nodes(user_id, names)

Spec == Init /\ [][Next]_vars

----------------------------------------------------------------------------
(* SpecDamaged: the requests of Spec on a file that holds one line save_graph *)
(* did not write.  read_graph_file reads whatever lines the file has.         *)

\* text that json.loads rejects, such as the head of a line cut short
NotJsonLine == [raw |-> "{\"type\": \"entity\", \"na"]

\* {"type": "entity", "name": "Al"}: an entity object without its other fields
PartialEntityLine == [type |-> "entity", name |-> Alice]

\* {"type": "note", "text": "x"}: a JSON object of another type
NoteLine == [type |-> "note", text |-> ObsX]

\* {"text": "x"}: a JSON object with no "type"
UntypedLine == [text |-> ObsX]

ForeignLines == {NotJsonLine, PartialEntityLine, NoteLine, UntypedLine}

\* the lines of a saved graph with one foreign line before, between or after them
DamagedFiles ==
    LET lines == GraphLines(KnowledgeGraph(<<AlicePerson>>, <<AliceKnowsBob>>))
    IN { [exists |-> TRUE,
          lines |-> SubSeq(lines, 1, k) \o <<line>> \o SubSeq(lines, k + 1, Len(lines))] :
             k \in 0..Len(lines), line \in ForeignLines }

InitDamaged ==
    /\ \E file \in DamagedFiles :
           files = [p \in Paths |->
                       IF p = get_memory_file_path("u1") THEN file ELSE NoFile]
    /\ last = NoCall
    /\ nops = 0
    /\ pc = [t \in Threads |-> "idle"]
    /\ call = [t \in Threads |-> NoCall]

SpecDamaged == InitDamaged /\ [][Next]_vars

----------------------------------------------------------------------------
(* SpecUsers: the nine endpoints called for either user, one request at a    *)
(* time, with payloads of one item.                                          *)

NextUsers ==
    \E user_id \in Users :
        \/ \E entities \in {<<AlicePerson>>, <<BobPerson>>, <<AlicePlace>>} :
               create_entities(user_id, entities)
        \/ \E relations \in {<<AliceKnowsBob>>, <<BobKnowsBob>>} :
               create_relations(user_id, relations)
        \/ \E observations \in {<<ObservationItem(Alice, <<ObsX>>)>>,
                               <<ObservationItem(Bob, <<ObsY>>)>>} :
               add_observations(user_id, observations)
        \/ \E entityNames \in {<<Alice>>} : delete_entities(user_id, entityNames)
        \/ \E deletions \in {<<DeletionItem(Alice, <<ObsX>>)>>} :
               delete_observations(user_id, deletions)
        \/ \E relations \in {<<AliceKnowsBob>>} : delete_relations(user_id, relations)
        \/ read_graph(user_id)
        \/ \E query \in {<<"a", "l">>} : search_nodes(user_id, query)
        \/ \E names \in {<<Alice, Bob>>} : open_nodes(user_id, names)

SpecUsers == Init /\ [][NextUsers]_vars

----------------------------------------------------------------------------
(* SpecConc: requests on the worker threads.  The handlers are plain `def`  *)
(* endpoints, which the server runs on a thread pool; nothing in main.py    *)
(* locks a file.  A thread's steps are its accesses to the file: the load,  *)
(* the open(file_path, "w") that truncates it, the write that fills it.     *)

\* create_entities up to save_graph: the load and the change in memory
create_entities_load(t, user_id, entities) ==
    LET resp == CreateEntities(Stored(user_id), entities)
    IN /\ pc[t] = "idle"
       /\ nops < MaxOps
       /\ nops' = nops + 1
       /\ pc' = [pc EXCEPT ![t] = "loaded"]
       /\ call' = [call EXCEPT ![t] =
                     [op |-> "create_entities", user_id |-> user_id,
                      req |-> [EmptyRequest EXCEPT !.entities = entities],
                      before |-> Stored(user_id), graph |-> resp.graph,
                      status |-> 0, returned |-> resp.returned, detail |-> <<>>]]
       /\ UNCHANGED <<files, last>>

\* save_graph: open(file_path, "w")
save_graph_open(t) ==
    /\ pc[t] = "loaded"
    /\ pc' = [pc EXCEPT ![t] = "open"]
    /\ files' = [files EXCEPT ![get_memory_file_path(call[t].user_id)] = OpenForWrite]
    /\ UNCHANGED <<last, nops, call>>

\* save_graph: f.write("\n".join(lines)), the close, and the handler's return
save_graph_write(t) ==
    /\ pc[t] = "open"
    /\ pc' = [pc EXCEPT ![t] = "idle"]
    /\ files' = [files EXCEPT ![get_memory_file_path(call[t].user_id)] =
                    save_graph(call[t].graph)]
    /\ call' = [call EXCEPT ![t].status = 200]
    /\ UNCHANGED <<last, nops>>

\* save_graph stopped between the open and the write (the write raises, or the
\* process is killed and restarted): the request ends without a response body
save_graph_interrupted(t) ==
    /\ pc[t] = "open"
    /\ pc' = [pc EXCEPT ![t] = "idle"]
    /\ call' = [call EXCEPT ![t].status = 500]
    /\ UNCHANGED <<files, last, nops>>

\* read_graph on a thread: one load, returned as it is
read_graph_on(t, user_id) ==
    /\ pc[t] = "idle"
    /\ nops < MaxOps
    /\ nops' = nops + 1
    /\ call' = [call EXCEPT ![t] =
                  [op |-> "read_graph", user_id |-> user_id, req |-> EmptyRequest,
                   before |-> Stored(user_id), graph |-> Stored(user_id),
                   status |-> 200, returned |-> <<>>, detail |-> <<>>]]
    /\ UNCHANGED <<files, last, pc>>

NextConc ==
    \E t \in Threads :
        \/ \E user_id \in Callers, entities \in EntityLists :
               create_entities_load(t, user_id, entities)
        \/ save_graph_open(t)
        \/ save_graph_write(t)
        \/ save_graph_interrupted(t)
        \/ \E user_id \in Callers : read_graph_on(t, user_id)

SpecConc == Init /\ [][NextConc]_vars

----------------------------------------------------------------------------
(* Properties *)

NameSet(seq) == {seq[i] : i \in DOMAIN seq}

EntityNames(graph) == {graph.entities[i].name : i \in DOMAIN graph.entities}

\* number of entities of the graph with this name
CountNamed(graph, name) ==
    Cardinality({i \in DOMAIN graph.entities : graph.entities[i].name = name})

NoRepeat(seq) == \A i, j \in DOMAIN seq : i # j => seq[i] # seq[j]

IdleThreads == \A t \in Threads : pc[t] = "idle"

\* the thread's last request was a create_entities of one entity that it answered
\* with that entity (the name was not in the graph it loaded)
CreatedOne(t) ==
    /\ call[t].op = "create_entities"
    /\ call[t].status = 200
    /\ Len(call[t].req.entities) = 1
    /\ call[t].returned = call[t].req.entities

\* C1: when every thread has completed a create_entities call for the same user,
\* each adding one entity with a name of its own that was not in the graph, the
\* stored graph of the user holds all of these entities, whatever the interleaving
\* of the loads and saves (no update is lost).
C1_NoLostUpdate ==
    ( /\ IdleThreads
      /\ \A t \in Threads : CreatedOne(t) /\ call[t].user_id = "u1"
      /\ \A s, t \in Threads :
             s # t => call[s].req.entities[1].name # call[t].req.entities[1].name )
    => \A t \in Threads : call[t].req.entities[1].name \in EntityNames(Stored("u1"))

\* C2: a persist that is interrupted before it completes leaves the stored graph
\* exactly as it was before the mutation began: the next load returns that graph.
\* (Stated for a thread working alone, so that no other request is involved.)
C2_InterruptedSaveKeepsOldGraph ==
    \A t \in Threads :
        ( /\ \A s \in Threads \ {t} : call[s].op = "none"
          /\ pc[t] = "idle"
          /\ call[t].op = "create_entities"
          /\ call[t].status = 500 )
        => Stored(call[t].user_id) = call[t].before

\* C3: a read_graph that loads the file while a mutation of the same user is between
\* its open and its write gets the graph that mutation loaded or the graph it is
\* about to store, never an empty or partial one in between.  (Stated for a reader
\* and a writer alone: no thread but the writer has served a request before.)
C3_ReadSeesWholeGraph ==
    [][ \A r, w \in Threads :
           ( /\ \A s \in Threads \ {w} : call[s].op = "none"
             /\ call'[r] # call[r]
             /\ call'[r].op = "read_graph"
             /\ pc[w] = "open"
             /\ call[w].user_id = call'[r].user_id )
           => call'[r].graph \in {call[w].before, call[w].graph} ]_vars

\* C4: after any sequence of requests from the empty graph, no two entities of a
\* user's stored graph have the same name.
C4_EntityNamesUnique ==
    \A u \in Users :
        \A i, j \in DOMAIN Stored(u).entities :
            i # j => Stored(u).entities[i].name # Stored(u).entities[j].name

\* C5: after any sequence of requests from the empty graph, no two relations of a
\* user's stored graph have the same (from, to, relationType).
C5_RelationTriplesUnique ==
    \A u \in Users :
        \A i, j \in DOMAIN Stored(u).relations :
            i # j => Triple(Stored(u).relations[i]) # Triple(Stored(u).relations[j])

\* C6: after a successful add_observations, every entity named in the request holds
\* no observation string more than once.
C6_NoRepeatedObservationAfterAdd ==
    (last.op = "add_observations" /\ last.status = 200)
    => \A k \in DOMAIN last.req.observations :
           \A i \in DOMAIN Stored(last.user_id).entities :
               LET e == Stored(last.user_id).entities[i]
               IN e.name = last.req.observations[k].entityName
                      => NoRepeat(e.observations)

\* C7: create_entities called twice in succession with the same list for the same
\* user: the second call returns the empty list and leaves the stored file as the
\* first left it, and every entity of the list is in the graph exactly once.
C7_CreateEntitiesIdempotent ==
    [][ ( /\ last.op = "create_entities"
          /\ last'.op = "create_entities"
          /\ last'.user_id = last.user_id
          /\ last'.req = last.req )
        => /\ last'.returned = <<>>
           /\ files' = files
           /\ \A k \in DOMAIN last.req.entities :
                  CountNamed(read_graph_file(files'[get_memory_file_path(last.user_id)]),
                             last.req.entities[k].name) = 1 ]_vars

\* the items of the last add_observations request that name an entity absent from
\* the graph the request loaded
MissingItems ==
    {k \in DOMAIN last.req.observations :
        last.req.observations[k].entityName \notin EntityNames(last.before)}

\* C8: an add_observations request with an item naming an entity absent from the
\* graph fails with 404 for that name (the first such item), and the stored graph
\* is the graph it loaded: nothing of the batch is persisted.
C8_AddObservationsAllOrNothing ==
    (last.op = "add_observations" /\ MissingItems # {})
    => /\ last.status = 404
       /\ \E k \in MissingItems :
              /\ last.detail = last.req.observations[k].entityName
              /\ \A j \in MissingItems : k <= j
       /\ Stored(last.user_id) = last.before

\* C8 witness: the request failed after an earlier item had added an observation to
\* an existing entity in memory.
C8_Witness ==
    /\ last.op = "add_observations"
    /\ last.status = 404
    /\ \E k \in DOMAIN last.returned : last.returned[k].addedObservations # <<>>
    /\ last.graph # last.before
    /\ last.before.entities # <<>>

\* C9: after delete_entities(entityNames) the stored graph has no entity named in
\* entityNames and no relation with an endpoint in entityNames; the other entities
\* and the relations with no endpoint in entityNames are kept as they were, in
\* order; the request answers 200 whether or not the names were in the graph.
C9_DeleteEntitiesCascades ==
    last.op = "delete_entities"
    => LET names == NameSet(last.req.entityNames)
           g == Stored(last.user_id)
           otherEntity(e) == e.name \notin names
           otherRelation(r) == r.from_ \notin names /\ r.to \notin names
       IN /\ last.status = 200
          /\ \A i \in DOMAIN g.entities : g.entities[i].name \notin names
          /\ \A i \in DOMAIN g.relations :
                 g.relations[i].from_ \notin names /\ g.relations[i].to \notin names
          /\ g.entities = SelectSeq(last.before.entities, otherEntity)
          /\ g.relations = SelectSeq(last.before.relations, otherRelation)

\* C9 witness: the request removed an entity and a relation of it, and kept another
\* entity.
C9_Witness ==
    /\ last.op = "delete_entities"
    /\ \E i \in DOMAIN last.before.entities :
           last.before.entities[i].name \in NameSet(last.req.entityNames)
    /\ \E i \in DOMAIN last.before.relations :
           last.before.relations[i].from_ \in NameSet(last.req.entityNames)
    /\ Stored(last.user_id).entities # <<>>
    /\ Stored(last.user_id).relations = <<>>

\* C10 as claimed: open_nodes(names) returns the entities of the graph whose name is
\* in names and the relations of the graph whose from and to are both in names.
C10_OpenNodesRelationsOfRequestedNames ==
    last.op = "open_nodes"
    => LET names == NameSet(last.req.names)
           named(e) == e.name \in names
           among(r) == r.from_ \in names /\ r.to \in names
       IN /\ last.status = 200
          /\ last.graph.entities = SelectSeq(last.before.entities, named)
          /\ last.graph.relations = SelectSeq(last.before.relations, among)

\* C10 amended: open_nodes(names) returns the entities of the graph whose name is in
\* names and the relations of the graph whose from and to are both names of
\* returned entities, that is both in names and both naming an entity of the
\* graph; names that are not in the graph are left out and the request answers 200.
C10_OpenNodesRelationsAmongReturned ==
    last.op = "open_nodes"
    => LET names == NameSet(last.req.names)
           named(e) == e.name \in names
           among(r) ==
               /\ r.from_ \in names /\ r.from_ \in EntityNames(last.before)
               /\ r.to \in names /\ r.to \in EntityNames(last.before)
       IN /\ last.status = 200
          /\ last.graph.entities = SelectSeq(last.before.entities, named)
          /\ last.graph.relations = SelectSeq(last.before.relations, among)

\* C10 witness: the request named an entity that is not in the graph, got an entity
\* and a relation back, and the graph has a relation between requested names that
\* was left out.
C10_Witness ==
    /\ last.op = "open_nodes"
    /\ \E k \in DOMAIN last.req.names : last.req.names[k] \notin EntityNames(last.before)
    /\ last.graph.entities # <<>>
    /\ last.graph.relations # <<>>
    /\ \E i \in DOMAIN last.before.relations :
           /\ last.before.relations[i].from_ \in NameSet(last.req.names)
           /\ last.before.relations[i].to \in NameSet(last.req.names)
           /\ ~InSeq(last.before.relations[i], last.graph.relations)

\* q occurs in s: s is some prefix, then q, then some suffix
IsInfix(q, s) ==
    \E i, j \in 0..Len(s) : i <= j /\ SubSeq(s, i + 1, j) = q

\* the entity matches the query of the last request, case aside
MatchesQuery(e) ==
    LET q == lower(last.req.query)
    IN \/ IsInfix(q, lower(e.name))
       \/ IsInfix(q, lower(e.entityType))
       \/ \E i \in DOMAIN e.observations : IsInfix(q, lower(e.observations[i]))

\* C11: search_nodes(query) returns exactly the entities of the graph for which the
\* lower-cased query occurs in the lower-cased name, entityType or an observation,
\* and exactly the relations whose from and to are both names of returned entities;
\* the empty query returns every entity, and a relation with an endpoint that names
\* no stored entity is not returned.
C11_SearchNodesMatches ==
    last.op = "search_nodes"
    => LET found == EntityNames(last.graph)
           amongFound(r) == r.from_ \in found /\ r.to \in found
       IN /\ last.status = 200
          /\ last.graph.entities = SelectSeq(last.before.entities, MatchesQuery)
          /\ last.graph.relations = SelectSeq(last.before.relations, amongFound)
          /\ last.req.query = <<>> => last.graph.entities = last.before.entities
          /\ \A i \in DOMAIN last.graph.relations :
                 /\ last.graph.relations[i].from_ \in EntityNames(last.before)
                 /\ last.graph.relations[i].to \in EntityNames(last.before)

\* C11 witness: a query in another case than the text it matches returned an entity
\* and a relation of it, and left out an entity and a relation of the graph.
C11_Witness ==
    /\ last.op = "search_nodes"
    /\ last.req.query # <<>>
    /\ last.req.query # lower(last.req.query)
    /\ last.graph.entities # <<>>
    /\ last.graph.relations # <<>>
    /\ Len(last.graph.entities) < Len(last.before.entities)
    /\ Len(last.graph.relations) < Len(last.before.relations)

\* the line is one save_graph writes: an entity or a relation with all its fields
DecodesToEntityOrRelation(line) ==
    /\ "raw" \notin DOMAIN line
    /\ "type" \in DOMAIN line
    /\ \/ line.type = "entity" /\ {"name", "entityType", "observations"} \subseteq DOMAIN line
       \/ line.type = "relation" /\ {"from", "to", "relationType"} \subseteq DOMAIN line

HasCorruptRecord(file) ==
    /\ file.exists
    /\ \E i \in DOMAIN file.lines : ~DecodesToEntityOrRelation(file.lines[i])

\* C12: when the stored file of a user holds a line that does not decode to an entity
\* or a relation, every request for that user is answered with an error and leaves
\* the stored file as it was.
C12_CorruptRecordAborts ==
    [][ (nops' # nops /\ HasCorruptRecord(files[get_memory_file_path(last'.user_id)]))
        => (last'.status >= 400 /\ files' = files) ]_vars

\* the six endpoints that call save_graph
SavingOps ==
    {"create_entities", "create_relations", "add_observations",
     "delete_entities", "delete_observations", "delete_relations"}

\* C13: saving a graph and loading what was saved gives the same entities and the
\* same relations, field for field: for the graph of every response (the empty graph
\* and graphs with entities without observations among them), and for the graph a
\* request has just saved to the user's file.
C13_PersistLoadRoundTrip ==
    /\ read_graph_file(save_graph(last.graph)) = last.graph
    /\ read_graph_file(save_graph(EmptyGraph)) = EmptyGraph
    /\ (last.op \in SavingOps /\ last.status = 200)
           => /\ files[get_memory_file_path(last.user_id)] = save_graph(last.graph)
              /\ Stored(last.user_id) = last.graph

\* C13 witness: the graph just saved has an entity without observations, an entity
\* with an observation and a relation.
C13_Witness ==
    /\ last.op \in SavingOps
    /\ last.status = 200
    /\ \E i \in DOMAIN last.graph.entities : last.graph.entities[i].observations = <<>>
    /\ \E i \in DOMAIN last.graph.entities : last.graph.entities[i].observations # <<>>
    /\ last.graph.relations # <<>>

\* the strings reported as added for the entity name by the items before item i
RECURSIVE AddedBefore(_, _, _)
AddedBefore(results, name, i) ==
    IF i <= 1
    THEN <<>>
    ELSE AddedBefore(results, name, i - 1)
             \o (IF results[i - 1].entityName = name
                 THEN results[i - 1].addedObservations
                 ELSE <<>>)

\* C14: a successful add_observations reports, for each item, exactly the strings of
\* contents that were not among the observations of the entity when the item was
\* reached, in input order; the entity ends with its former observations followed by
\* the strings reported for it, and nothing else of the graph changes.
C14_AddObservationsAppendsNew ==
    (last.op = "add_observations" /\ last.status = 200)
    => LET items == last.req.observations
           old == last.before.entities
           new == Stored(last.user_id).entities
           target(i) == FirstNamed(old, items[i].entityName)
           prior(i) == old[target(i)].observations
                           \o AddedBefore(last.returned, items[i].entityName, i)
       IN /\ Len(last.returned) = Len(items)
          /\ \A i \in DOMAIN items :
                 LET isNew(c) == \A n \in DOMAIN prior(i) : prior(i)[n] # c
                 IN /\ target(i) # 0
                    /\ last.returned[i].entityName = items[i].entityName
                    /\ last.returned[i].addedObservations = SelectSeq(items[i].contents, isNew)
          /\ Len(new) = Len(old)
          /\ \A k \in DOMAIN old :
                 /\ new[k].name = old[k].name
                 /\ new[k].entityType = old[k].entityType
                 /\ new[k].observations =
                        IF FirstNamed(old, old[k].name) = k
                        THEN old[k].observations
                                 \o AddedBefore(last.returned, old[k].name, Len(items) + 1)
                        ELSE old[k].observations
          /\ Stored(last.user_id).relations = last.before.relations

\* C14 witness: the entity had observations [x, y], the request added [y, z], the
\* response reports [z] and the entity is stored with [x, y, z].
C14_Witness ==
    /\ last.op = "add_observations"
    /\ last.status = 200
    /\ last.req.observations = <<ObservationItem(Alice, <<ObsY, ObsZ>>)>>
    /\ last.before.entities = <<Entity(Alice, Person, <<ObsX, ObsY>>)>>
    /\ last.returned = <<[entityName |-> Alice, addedObservations |-> <<ObsZ>>]>>
    /\ Stored(last.user_id).entities = <<Entity(Alice, Person, <<ObsX, ObsY, ObsZ>>)>>

\* C15: create_entities answers 200 and leaves every entity that was in the graph
\* where it was, with its entityType and observations, also when the payload holds an
\* entity of that name with other fields; what it returns is exactly what it appended
\* to the entity list: the payload entities whose name was not in the graph, in order.
C15_CreateEntitiesNeverOverwrites ==
    last.op = "create_entities"
    => LET old == last.before.entities
           new == Stored(last.user_id).entities
           isNew(e) == \A k \in DOMAIN old : old[k].name # e.name
       IN /\ last.status = 200
          /\ Len(new) = Len(old) + Len(last.returned)
          /\ \A k \in DOMAIN old : new[k] = old[k]
          /\ \A k \in DOMAIN last.returned : new[Len(old) + k] = last.returned[k]
          /\ last.returned = SelectSeq(last.req.entities, isNew)
          /\ Stored(last.user_id).relations = last.before.relations

\* C15 witness: the payload held an entity with the name of a stored entity and other
\* fields, and an entity with a new name; only the second was appended and returned.
C15_Witness ==
    /\ last.op = "create_entities"
    /\ last.returned # <<>>
    /\ \E i \in DOMAIN last.req.entities, k \in DOMAIN last.before.entities :
           /\ last.req.entities[i].name = last.before.entities[k].name
           /\ last.req.entities[i].entityType # last.before.entities[k].entityType
           /\ last.req.entities[i].observations # last.before.entities[k].observations
           /\ Stored(last.user_id).entities[k] = last.before.entities[k]

\* C16: delete_observations answers 200 also when an item names no entity; every
\* entity an item names (the first entity of that name) keeps, in order, exactly its
\* observations that no item naming it lists, whatever items precede it in the batch;
\* every other entity and all relations are as before.
C16_DeleteObservationsSkipsMissing ==
    last.op = "delete_observations"
    => LET items == last.req.deletions
           old == last.before.entities
           new == Stored(last.user_id).entities
           listed(name, obs) ==
               \E i \in DOMAIN items :
                   /\ items[i].entityName = name
                   /\ \E n \in DOMAIN items[i].observations : items[i].observations[n] = obs
       IN /\ last.status = 200
          /\ Len(new) = Len(old)
          /\ \A k \in DOMAIN old :
                 LET kept(obs) == ~listed(old[k].name, obs)
                 IN /\ new[k].name = old[k].name
                    /\ new[k].entityType = old[k].entityType
                    /\ new[k].observations =
                           IF FirstNamed(old, old[k].name) = k
                           THEN SelectSeq(old[k].observations, kept)
                           ELSE old[k].observations
          /\ Stored(last.user_id).relations = last.before.relations

\* C16 witness: the first item of the batch named no entity, a later item named an
\* entity with two observations, and that entity lost the listed one and kept the
\* other.
C16_Witness ==
    /\ last.op = "delete_observations"
    /\ last.status = 200
    /\ last.req.deletions = <<DeletionItem(Bob, <<ObsY>>), DeletionItem(Alice, <<ObsX>>)>>
    /\ last.before.entities = <<Entity(Alice, Person, <<ObsX, ObsY>>)>>
    /\ Stored(last.user_id).entities = <<Entity(Alice, Person, <<ObsY>>)>>

\* C17: delete_relations answers 200 and keeps, in order, exactly the stored
\* relations that equal no input relation in all of from, to and relationType; the
\* entity list is as before.
C17_DeleteRelationsExactTriple ==
    last.op = "delete_relations"
    => LET sent == last.req.relations
           matched(r) ==
               \E i \in DOMAIN sent :
                   /\ sent[i].from_ = r.from_
                   /\ sent[i].to = r.to
                   /\ sent[i].relationType = r.relationType
           kept(r) == ~matched(r)
       IN /\ last.status = 200
          /\ Stored(last.user_id).relations = SelectSeq(last.before.relations, kept)
          /\ Stored(last.user_id).entities = last.before.entities

\* C17 witness: of two stored relations the request removed one and kept the one that
\* differs from it in relationType only; another input triple matched nothing.
C17_Witness ==
    /\ last.op = "delete_relations"
    /\ last.status = 200
    /\ last.req.relations = <<AliceKnowsAlice, AliceKnowsBob>>
    /\ last.before.relations = <<AliceKnowsBob, AliceLikesBob>>
    /\ Stored(last.user_id).relations = <<AliceLikesBob>>

\* C18: create_relations answers 200 and appends every payload relation whose triple
\* is not stored yet, whether or not its from and to name an entity of the graph;
\* delete_entities keeps exactly the relations with no endpoint among the deleted
\* names, so afterwards no relation refers to a deleted name, while a relation whose
\* endpoint names no entity for another reason stays.
C18_CreateRelationsNoEndpointCheck ==
    /\ last.op = "create_relations"
       => LET old == last.before.relations
              isNew(r) == \A k \in DOMAIN old : Triple(old[k]) # Triple(r)
          IN /\ last.status = 200
             /\ last.returned = SelectSeq(last.req.relations, isNew)
             /\ Stored(last.user_id).relations = old \o last.returned
             /\ Stored(last.user_id).entities = last.before.entities
    /\ last.op = "delete_entities"
       => LET deleted == NameSet(last.req.entityNames)
              untouched(r) == r.from_ \notin deleted /\ r.to \notin deleted
          IN /\ last.status = 200
             /\ Stored(last.user_id).relations = SelectSeq(last.before.relations, untouched)

\* C18 witness: create_relations has just stored, with status 200, a relation whose
\* from or to names no entity of the stored graph.
C18_Witness ==
    /\ last.op = "create_relations"
    /\ last.status = 200
    /\ \E i \in DOMAIN last.returned :
           /\ \/ last.returned[i].from_ \notin EntityNames(Stored(last.user_id))
              \/ last.returned[i].to \notin EntityNames(Stored(last.user_id))
           /\ \E k \in DOMAIN Stored(last.user_id).relations :
                  Stored(last.user_id).relations[k] = last.returned[i]

\* C19: a request for one user, answered with success or with an error, leaves the
\* file and the stored graph of every other user as they were, and what a query
\* answers is a function of the file of its own user alone.
C19_UserIsolation ==
    [][ nops' # nops
        => LET u == last'.user_id
               own == read_graph_file(files[get_memory_file_path(u)])
           IN /\ \A v \in Users \ {u} :
                     /\ files'[get_memory_file_path(v)] = files[get_memory_file_path(v)]
                     /\ read_graph_file(files'[get_memory_file_path(v)])
                            = read_graph_file(files[get_memory_file_path(v)])
              /\ last'.op = "read_graph" => last'.graph = own
              /\ last'.op = "search_nodes" => last'.graph = SearchNodes(own, last'.req.query)
              /\ last'.op = "open_nodes" => last'.graph = OpenNodes(own, last'.req.names)
      ]_vars

\* C19 witness: both users have a stored graph, the two differ, and the last request,
\* a failed add_observations for one user, left the other user's graph in place.
C19_Witness ==
    /\ last.op = "add_observations"
    /\ last.status = 404
    /\ last.user_id = "u2"
    /\ Stored("u1").entities # <<>>
    /\ Stored("u2").entities # <<>>
    /\ Stored("u1") # Stored("u2")

\* the three endpoints that only read
QueryOps == {"read_graph", "search_nodes", "open_nodes"}

\* C20: a read_graph, search_nodes or open_nodes request answers 200 and leaves every
\* file as it was, a missing file still missing; read_graph for a user whose file
\* does not exist answers the graph with no entities and no relations.
C20_QueriesChangeNothing ==
    [][ (nops' # nops /\ last'.op \in QueryOps)
        => LET path == get_memory_file_path(last'.user_id)
           IN /\ last'.status = 200
              /\ files' = files
              /\ read_graph_file(files'[path]) = read_graph_file(files[path])
              /\ (last'.op = "read_graph" /\ ~files[path].exists)
                     => /\ last'.graph.entities = <<>>
                        /\ last'.graph.relations = <<>>
                        /\ ~files'[path].exists
      ]_vars

\* C20 witness: read_graph was answered for a user who has no file, after an earlier
\* request, and the user still has no file.
C20_Witness ==
    /\ last.op = "read_graph"
    /\ last.status = 200
    /\ nops > 1
    /\ ~files[get_memory_file_path(last.user_id)].exists
    /\ last.graph = EmptyGraph

====
